---------------------------- MODULE Spec2Model ----------------------------
(***************************************************************************)
(* The wallet-rotation and trade-scheduling engine of EVM_Volume_Bot.      *)
(*                                                                         *)
(* Two programs share the class MultiChainTradingBot:                      *)
(*   src/server/mysever.js  the HTTP control surface (/api/start,          *)
(*                          /api/stop, /api/is_running) around one chain   *)
(*   src/server/server.js   a command-line main() that starts one bot per  *)
(*                          configured chain                               *)
(* The variable "variant" says which program runs.  Every await of the     *)
(* code is a position (pc) at which other handlers may run; the code       *)
(* between two awaits is one atomic step.                                  *)
(*                                                                         *)
(* Units: balances are counted in 1e-4 AVAX (0.001 AVAX = 10), gas prices  *)
(* in gwei, times in multiples of the file's minInterval.                  *)
(***************************************************************************)
EXTENDS Integers, Sequences, FiniteSets, TLC

VARIABLES
    variant,        \* "mysever" or "server": the program that runs
    isRunning,      \* mysever.js:17  let isRunning
    bots,           \* mysever.js:15 / server.js:442  the bots array (bot ids)
    chainConfig,    \* CHAIN_CONFIG.avax, the object every bot aliases
    walletFile,     \* temp_wallets_avax.json: NoFile or the stored records
    now,            \* Date.now()
    pc,             \* per start request / bot: the await it is suspended at
    running,        \* this.running
    tempWallets,    \* this.tempWallets
    activeWallets,  \* this.activeWallets
    eligible,       \* eligibleWallets of the cycle (indices into tempWallets)
    idx,            \* position of the for..of loop in eligibleWallets
    tempWalletCount,\* this.tempWalletCount
    rpc,            \* the value a resolved chain call handed back
    logged,         \* the console line the bot's latest step wrote
    mainPc,         \* server.js main(): its position
    chains,         \* server.js:434  CHAINS
    chainIdx,       \* server.js:443  position of for (const chain of CHAINS)
    trade,          \* one invocation of executeTrade, followed call by call
    lastReturn      \* history, where one is kept: per bot and wallet, when
                    \* executeTrade last returned

vars == <<variant, isRunning, bots, chainConfig, walletFile, now, pc, running,
          tempWallets, activeWallets, eligible, idx, tempWalletCount, rpc,
          logged, mainPc, chains, chainIdx, trade, lastReturn>>

botVars == <<pc, running, tempWallets, activeWallets, eligible, idx,
            tempWalletCount, rpc, logged>>
mainVars == <<mainPc, chains, chainIdx>>

-----------------------------------------------------------------------------
(* Bounds of the model. *)

\* start requests (mysever.js) or configured chains (server.js) in one run
MaxBots == 2
\* ticks of the clock after the first start
MaxTicks == 1
\* pools up to this size are shuffled by every permutation, larger ones by rotations
FullShuffleMax == 3
\* the largest wallet pool whose active set is computed on its own
MaxPoolSize == 100

\* the largest output, in wei, that the router quotes
MaxQuote == 50
\* Math.random() returns a multiple of 1 / RandomSteps below 1
RandomSteps == 2

(* Program constants. *)

\* GLOBAL_CONFIG.MIN_AVAX_BALANCE = 0.001 AVAX
MIN_AVAX_BALANCE == 10
\* CHAIN_CONFIG.avax.maxGasPrice, gwei
DefaultMaxGasPrice == 50
\* tradingParams.minInterval and maxInterval, in units of minInterval
DefaultMinInterval == 1
DefaultMaxInterval == 2
\* tradingParams.minAmountAVAX, maxAmountAVAX and fundAmount, in 1e-4 AVAX
DefaultMinAmountAVAX == 100
DefaultMaxAmountAVAX == 300
DefaultFundAmount == 4000
\* 1 / GLOBAL_CONFIG.RANDOM_VARIANCE
InverseRandomVariance == 100
\* GLOBAL_CONFIG.WALLET_FUND_THRESHOLD, 0.05 AVAX, in 1e-4 AVAX
WALLET_FUND_THRESHOLD == 500
\* gasLimit of a plain transfer
GasLimit == 21000
\* the reserve of server.js's returnFundsToMain, 0.01 AVAX, in gwei
SweepReserve == 10000000

Bots == 1..MaxBots
\* no temp_wallets_avax.json on disk
NoFile == [exists |-> FALSE, data |-> <<>>]
\* no chain-call result is held
None == 0 - 1

\* Date.now() at the first start; lastTradeTime = 0 lies more than maxInterval back
StartTime == DefaultMaxInterval
Times == StartTime..(StartTime + MaxTicks)

\* the keys of CHAIN_CONFIG
SupportedChains == {"avax"}

(* Inputs. *)
MainBalances == {5, 10, 10000}
GasPrices == {40, 50, 60}
WalletCountInputs == {3}
SmallWalletCountInputs == {2}
\* the body of POST /api/start; a field that is absent, 0 or not a number is 0
NoOverrides ==
    [maxGas |-> 0, tradingMinInterval |-> 0, tradingMaxInterval |-> 0,
     tradingMintAmount |-> 0, tradingMaxAmount |-> 0, AvaxFundAmount |-> 0]
OverrideInputs ==
    {NoOverrides,
     [NoOverrides EXCEPT !.maxGas = 60],
     [NoOverrides EXCEPT !.tradingMinInterval = 3]}
ChainLists == {<<"avax">>, <<"avax", "base">>, <<"base", "avax">>, <<"mainnet", "base">>}

InitPcs == {"checkBalance", "gotBalance"}
SleepPcs == {"gasWait", "errWait", "cycleWait"}
LoopPcs == {"gas", "gotGas", "trade", "jitter"} \cup SleepPcs

-----------------------------------------------------------------------------
(* Pure functions of MultiChainTradingBot. *)

RECURSIVE PowerOfTwoBelow(_)
\* the largest power of two strictly below q (q >= 2)
PowerOfTwoBelow(q) == IF q <= 2 THEN 1 ELSE 2 * PowerOfTwoBelow((q + 1) \div 2)

(***************************************************************************)
(* Math.floor(n * 0.7) in IEEE-754 double arithmetic.  The double nearest  *)
(* 0.7 is 0.7 - 0.4 * 2^-53, so the exact product is 7n/10 - 0.4n * 2^-53, *)
(* which is then rounded to 53 bits.  When 7n/10 is not an integer the     *)
(* product is at least 0.1 away from one and the floor is that of 7n/10.   *)
(* When n = 10m the exact product lies 4m * 2^-53 below the integer 7m;    *)
(* the doubles below 7m are 2h * 2^-53 apart, h the largest power of two   *)
(* below 7m, so the product rounds down to the double below 7m, and the    *)
(* floor is 7m - 1, exactly when 4m > h (a tie, 4m = h, rounds to the even *)
(* mantissa, which is 7m).  The first such n is 90.                        *)
(***************************************************************************)
FloorOfProduct(n) ==
    LET q == (7 * n) \div 10
        m == n \div 10
    IN  IF n = 0 \/ (7 * n) % 10 # 0 THEN q
        ELSE IF 4 * m > PowerOfTwoBelow(q) THEN q - 1 ELSE q

\* updateActiveWallets: const activeCount = Math.floor(length * ACTIVE_WALLET_PERCENTAGE)
ActiveCount(n) == FloorOfProduct(n)

\* every permutation of 1..n
AllOrders(n) == {f \in [1..n -> 1..n] : \A i, j \in 1..n : f[i] = f[j] => i = j}
\* the rotations of 1..n
Rotations(n) == {[i \in 1..n |-> ((i + o) % n) + 1] : o \in 0..(n - 1)}
\* the orders [...tempWallets].sort(() => 0.5 - Math.random()) is taken to produce
Shuffles(n) == IF n <= FullShuffleMax THEN AllOrders(n) ELSE Rotations(n)

\* updateActiveWallets: the addresses of the first activeCount wallets of the shuffle
UpdateActiveWallets(tw, shuffled) ==
    {tw[shuffled[i]].address : i \in 1..ActiveCount(Len(tw))}

\* isGasPriceAcceptable
IsGasPriceAcceptable(chainGasGwei) ==
    IF variant = "server" THEN TRUE ELSE chainGasGwei < chainConfig.maxGasPrice

\* variant of MainBalanceTooLow that also refuses a balance equal to the floor
MainBalanceTooLowOrEqual(balanceAVAX) == balanceAVAX <= MIN_AVAX_BALANCE

\* checkMainWalletBalance: throws when balanceAVAX < MIN_AVAX_BALANCE
MainBalanceTooLow(balanceAVAX) == balanceAVAX < MIN_AVAX_BALANCE

\* initializeTempWallets, no file: tempWalletCount fresh records
NewWallets(b, count) ==
    [i \in 1..count |-> [address |-> <<b, i>>, lastTradeTime |-> 0]]

\* the indices i of tw, in order, for which keep[i] holds
RECURSIVE FilterFrom(_, _, _)
FilterFrom(i, n, keep) ==
    IF i > n THEN <<>>
    ELSE IF keep[i] THEN <<i>> \o FilterFrom(i + 1, n, keep)
    ELSE FilterFrom(i + 1, n, keep)

\* variant of EligibleWallets that does not look at the active set
EligibleWhateverActive(tw, active, t, delay) ==
    FilterFrom(1, Len(tw), [i \in 1..Len(tw) |-> t - tw[i].lastTradeTime >= delay[i]])

\* startTrading: eligibleWallets = tempWallets.filter(active && now - last >= delay)
EligibleWallets(tw, active, t, delay) ==
    FilterFrom(1, Len(tw),
               [i \in 1..Len(tw) |-> tw[i].address \in active
                                     /\ t - tw[i].lastTradeTime >= delay[i]])

\* generateRandomDelay: minInterval + Math.random() * (maxInterval - minInterval), the
\* values it can return, rounded up to the unit of time
GenerateRandomDelay ==
    IF chainConfig.minInterval <= chainConfig.maxInterval
    THEN chainConfig.minInterval..chainConfig.maxInterval
    ELSE (chainConfig.maxInterval + 1)..chainConfig.minInterval

\* parseFloat(x) || current
OrCurrent(x, current) == IF x = 0 THEN current ELSE x

\* POST /api/start: the assignments to bot.chainConfig, which is CHAIN_CONFIG.avax
ApplyOverrides(cfg, ov) ==
    [maxGasPrice |-> OrCurrent(ov.maxGas, cfg.maxGasPrice),
     minInterval |-> OrCurrent(ov.tradingMinInterval, cfg.minInterval),
     maxInterval |-> OrCurrent(ov.tradingMaxInterval, cfg.maxInterval),
     minAmountAVAX |-> OrCurrent(ov.tradingMintAmount, cfg.minAmountAVAX),
     maxAmountAVAX |-> OrCurrent(ov.tradingMaxAmount, cfg.maxAmountAVAX),
     fundAmount |-> OrCurrent(ov.AvaxFundAmount, cfg.fundAmount)]

\* the chain calls of executeTrade that may throw
FailPoints == {"fund", "balance", "tokenBalance", "gasPrice", "approve", "quote",
               "nonce", "swap", "confirm", "sweep"}

(***************************************************************************)
(* executeTrade: what it logs when the chain call failAt (or "none")       *)
(* throws.  fundWallet, calculateSlippage and returnFundsToMain catch      *)
(* their own errors; every other throw reaches executeTrade's catch.       *)
(***************************************************************************)
ExecuteTradeOutcome(failAt, sufficient, isBuy) ==
    IF failAt \in {"balance", "tokenBalance"} THEN "failed"
    ELSE IF ~sufficient THEN "insufficient"
    ELSE IF failAt = "gasPrice" THEN "failed"
    ELSE IF isBuy THEN (IF failAt \in {"swap", "confirm"} THEN "failed" ELSE "executed")
    ELSE IF failAt \in {"approve", "swap", "confirm"} THEN "failed"
    ELSE IF failAt = "nonce" /\ variant = "server" THEN "failed"
    ELSE "executed"

\* variant of LastTradeTimeAfter that stamps the wallet whatever the outcome
LastTradeTimeAlways(outcome, before, t) == t

\* executeTrade: walletInfo.lastTradeTime after the call
LastTradeTimeAfter(outcome, before, t) ==
    IF outcome = "executed" THEN t ELSE before

\* variant of LoopCondition that never looks at this.running
LoopConditionAlways(b) == TRUE

\* while (this.running) in mysever.js, while (true) in server.js
LoopCondition(b) == IF variant = "server" THEN TRUE ELSE running[b]

-----------------------------------------------------------------------------
(* Steps shared by the handlers. *)

\* new MultiChainTradingBot(...): the fields the constructor sets
Construct(b, count) ==
    /\ tempWallets' = [tempWallets EXCEPT ![b] = <<>>]
    /\ activeWallets' = [activeWallets EXCEPT ![b] = {}]
    /\ running' = [running EXCEPT ![b] = FALSE]
    /\ tempWalletCount' = [tempWalletCount EXCEPT ![b] = count]

\* initialize() threw: /api/start answers 500; main() logs and calls process.exit(1)
InitFails(b) ==
    /\ pc' = [pc EXCEPT ![b] = "initFailed"]
    /\ rpc' = [rpc EXCEPT ![b] = None]
    /\ logged' = [logged EXCEPT ![b] = "initError"]
    /\ mainPc' = IF variant = "server" THEN "exited" ELSE mainPc
    /\ UNCHANGED <<variant, isRunning, bots, chainConfig, walletFile, now, running,
                   tempWallets, activeWallets, eligible, idx, tempWalletCount,
                   chains, chainIdx>>

\* variant of PersistAndSleep in which a failed write ends the loop
PersistOrCrash(b, tw, fsOk) ==
    /\ walletFile' = IF fsOk THEN [exists |-> TRUE, data |-> tw] ELSE walletFile
    /\ pc' = [pc EXCEPT ![b] = IF fsOk THEN "cycleWait" ELSE "crashed"]
    /\ logged' = [logged EXCEPT ![b] = IF fsOk THEN "" ELSE "loopError"]
    /\ eligible' = [eligible EXCEPT ![b] = <<>>]
    /\ idx' = [idx EXCEPT ![b] = 0]

\* fs.writeFileSync(this.walletFile, JSON.stringify(this.tempWallets)) at the end of a
\* cycle, then the CHECK_INTERVAL sleep; a throw is caught by the loop (RETRY_DELAY sleep)
PersistAndSleep(b, tw, fsOk) ==
    /\ walletFile' = IF fsOk THEN [exists |-> TRUE, data |-> tw] ELSE walletFile
    /\ pc' = [pc EXCEPT ![b] = IF fsOk THEN "cycleWait" ELSE "errWait"]
    /\ logged' = [logged EXCEPT ![b] = IF fsOk THEN "" ELSE "loopError"]
    /\ eligible' = [eligible EXCEPT ![b] = <<>>]
    /\ idx' = [idx EXCEPT ![b] = 0]

-----------------------------------------------------------------------------
(* mysever.js: the control surface. *)

\* POST /api/start up to the first await (checkMainWalletBalance's getBalance)
ApiStart(count, ov) ==
    /\ variant = "mysever"
    /\ \E b \in Bots :
        /\ pc[b] = "unborn"
        /\ \A q \in Bots : q < b => pc[q] # "unborn"
        /\ IF isRunning
           THEN /\ pc' = [pc EXCEPT ![b] = "rejected"]
                /\ logged' = [logged EXCEPT ![b] = "alreadyRunning"]
                /\ UNCHANGED <<running, tempWallets, activeWallets, tempWalletCount,
                               chainConfig>>
           ELSE /\ Construct(b, count)
                /\ chainConfig' = ApplyOverrides(chainConfig, ov)
                /\ pc' = [pc EXCEPT ![b] = "checkBalance"]
                /\ logged' = [logged EXCEPT ![b] = ""]
    /\ UNCHANGED <<variant, isRunning, bots, walletFile, now, eligible, idx, rpc,
                   mainVars>>
    /\ UNCHANGED <<trade, lastReturn>>

\* POST /api/stop: bots.forEach((bot) => bot.stopTrading())
ApiStop ==
    /\ variant = "mysever"
    /\ running' = [b \in Bots |->
                     IF \E k \in 1..Len(bots) : bots[k] = b THEN FALSE ELSE running[b]]
    /\ isRunning' = IF bots # <<>> THEN FALSE ELSE isRunning
    /\ UNCHANGED <<variant, bots, chainConfig, walletFile, now, pc, tempWallets,
                   activeWallets, eligible, idx, tempWalletCount, rpc, logged, mainVars>>
    /\ UNCHANGED <<trade, lastReturn>>

-----------------------------------------------------------------------------
(* initialize() *)

\* checkMainWalletBalance: provider.getBalance resolves or rejects
CheckBalanceReturns(b) ==
    /\ pc[b] = "checkBalance"
    /\ \/ InitFails(b)
       \/ \E balanceAVAX \in MainBalances :
            /\ pc' = [pc EXCEPT ![b] = "gotBalance"]
            /\ rpc' = [rpc EXCEPT ![b] = balanceAVAX]
            /\ UNCHANGED <<variant, isRunning, bots, chainConfig, walletFile, now,
                           running, tempWallets, activeWallets, eligible, idx,
                           tempWalletCount, logged, mainVars>>
    /\ UNCHANGED <<trade, lastReturn>>

\* variant of LoadOrCreate that replaces a stored pool of another size than asked for
LoadOrCreateResized(b, fsOk) ==
    LET keep == walletFile.exists /\ Len(walletFile.data) = tempWalletCount[b]
    IN  /\ tempWallets' = [tempWallets EXCEPT ![b] =
                             IF keep
                             THEN (IF fsOk THEN walletFile.data ELSE tempWallets[b])
                             ELSE NewWallets(b, tempWalletCount[b])]
        /\ walletFile' = IF ~keep /\ fsOk
                         THEN [exists |-> TRUE, data |-> NewWallets(b, tempWalletCount[b])]
                         ELSE walletFile

\* initializeTempWallets: the pool read from the file, or created and written
LoadOrCreate(b, fsOk) ==
    /\ tempWallets' = [tempWallets EXCEPT ![b] =
                         IF walletFile.exists
                         THEN (IF fsOk THEN walletFile.data ELSE tempWallets[b])
                         ELSE NewWallets(b, tempWalletCount[b])]
    /\ walletFile' = IF ~walletFile.exists /\ fsOk
                     THEN [exists |-> TRUE, data |-> NewWallets(b, tempWalletCount[b])]
                     ELSE walletFile

\* the rest of initialize() once the balance is known and, in mysever.js, the
\* continuation of /api/start: bots.push(bot); bot.startTrading() up to its first await
InitContinue(b) ==
    /\ pc[b] = "gotBalance"
    /\ IF MainBalanceTooLow(rpc[b])
       THEN InitFails(b)
       ELSE \E fsOk \in BOOLEAN :
            /\ LoadOrCreate(b, fsOk)
            /\ rpc' = [rpc EXCEPT ![b] = None]
            /\ UNCHANGED <<variant, chainConfig, now, eligible, idx, tempWalletCount,
                           chains>>
            /\ IF ~fsOk
               THEN /\ pc' = [pc EXCEPT ![b] = "initFailed"]
                    /\ logged' = [logged EXCEPT ![b] = "walletInitError"]
                    /\ mainPc' = IF variant = "server" THEN "exited" ELSE mainPc
                    /\ UNCHANGED <<isRunning, bots, running, activeWallets, chainIdx>>
               ELSE /\ \E shuffled \in Shuffles(Len(tempWallets'[b])) :
                         activeWallets' = [activeWallets EXCEPT ![b] =
                              UpdateActiveWallets(tempWallets'[b], shuffled)]
                    /\ bots' = Append(bots, b)
                    /\ logged' = [logged EXCEPT ![b] = "initialized"]
                    /\ IF variant = "mysever"
                       THEN /\ isRunning' = TRUE
                            /\ running' = [running EXCEPT ![b] = TRUE]
                            /\ pc' = [pc EXCEPT ![b] = "gas"]
                            /\ UNCHANGED <<mainPc, chainIdx>>
                       ELSE /\ pc' = [pc EXCEPT ![b] = "ready"]
                            /\ mainPc' = "loop"
                            /\ chainIdx' = chainIdx + 1
                            /\ UNCHANGED <<isRunning, running>>
    /\ UNCHANGED <<trade, lastReturn>>

-----------------------------------------------------------------------------
(* startTrading(): the trading loop. *)

\* isGasPriceAcceptable: provider.getGasPrice resolves, or rejects into the loop's catch
GasReturns(b) ==
    /\ pc[b] = "gas"
    /\ \/ /\ pc' = [pc EXCEPT ![b] = "errWait"]
          /\ logged' = [logged EXCEPT ![b] = "loopError"]
          /\ UNCHANGED rpc
       \/ \E chainGasGwei \in GasPrices :
            /\ pc' = [pc EXCEPT ![b] = "gotGas"]
            /\ rpc' = [rpc EXCEPT ![b] = chainGasGwei]
            /\ logged' = [logged EXCEPT ![b] = ""]
    /\ UNCHANGED <<variant, isRunning, bots, chainConfig, walletFile, now, running,
                   tempWallets, activeWallets, eligible, idx, tempWalletCount, mainVars>>
    /\ UNCHANGED <<trade, lastReturn>>

\* the gas gate, the eligibility scan and the call of executeTrade on the first
\* eligible wallet (or, with none, the write of the wallet file)
GasContinue(b) ==
    /\ pc[b] = "gotGas"
    /\ rpc' = [rpc EXCEPT ![b] = None]
    /\ IF ~IsGasPriceAcceptable(rpc[b])
       THEN /\ pc' = [pc EXCEPT ![b] = "gasWait"]
            /\ logged' = [logged EXCEPT ![b] = "gasTooHigh"]
            /\ UNCHANGED <<walletFile, eligible, idx>>
       ELSE \E delay \in [1..Len(tempWallets[b]) -> GenerateRandomDelay] :
            LET found == EligibleWallets(tempWallets[b], activeWallets[b], now, delay)
            IN  IF found = <<>>
                THEN \E fsOk \in BOOLEAN : PersistAndSleep(b, tempWallets[b], fsOk)
                ELSE /\ eligible' = [eligible EXCEPT ![b] = found]
                     /\ idx' = [idx EXCEPT ![b] = 1]
                     /\ pc' = [pc EXCEPT ![b] = "trade"]
                     /\ logged' = [logged EXCEPT ![b] = ""]
                     /\ UNCHANGED walletFile
    /\ UNCHANGED <<variant, isRunning, bots, chainConfig, now, running, tempWallets,
                   activeWallets, tempWalletCount, mainVars>>
    /\ UNCHANGED <<trade, lastReturn>>

\* no history of returns is kept, and the empty history that is kept
NoHistory == [kept |-> FALSE, at |-> [b \in Bots |-> <<>>]]
EmptyHistory == [kept |-> TRUE, at |-> [b \in Bots |-> <<>>]]

\* the history h once executeTrade has returned for wallet w of bot b at time t
ReturnedAt(h, b, w, t) ==
    IF h.kept
    THEN [h EXCEPT !.at[b] = [v \in DOMAIN h.at[b] \cup {w} |->
                                IF v = w THEN t ELSE h.at[b][v]]]
    ELSE h

\* variant of TradeReturns in which executeTrade rethrows what it caught, so that the
\* loop's catch ends the cycle
TradeReturnsRethrow(b) ==
    /\ pc[b] = "trade"
    /\ \E failAt \in FailPoints \cup {"none"}, sufficient, canSell, coin \in BOOLEAN :
        LET w == eligible[b][idx[b]]
            isBuy == ~canSell \/ coin
            outcome == ExecuteTradeOutcome(failAt, sufficient, isBuy)
        IN  /\ tempWallets' = [tempWallets EXCEPT ![b][w].lastTradeTime =
                       LastTradeTimeAfter(outcome, tempWallets[b][w].lastTradeTime, now)]
            /\ logged' = [logged EXCEPT ![b] = outcome]
            /\ pc' = [pc EXCEPT ![b] = IF outcome = "failed" THEN "errWait" ELSE "jitter"]
            /\ eligible' = [eligible EXCEPT ![b] =
                              IF outcome = "failed" THEN <<>> ELSE eligible[b]]
            /\ idx' = [idx EXCEPT ![b] = IF outcome = "failed" THEN 0 ELSE idx[b]]
            /\ lastReturn' = ReturnedAt(lastReturn, b, w, now)
    /\ UNCHANGED <<variant, isRunning, bots, chainConfig, walletFile, now, running,
                   activeWallets, tempWalletCount, rpc, mainVars>>
    /\ UNCHANGED trade

\* executeTrade(wallet) returns to the loop, which starts the jitter sleep
TradeReturns(b) ==
    /\ pc[b] = "trade"
    /\ \E failAt \in FailPoints \cup {"none"}, sufficient, canSell, coin \in BOOLEAN :
        LET w == eligible[b][idx[b]]
            isBuy == ~canSell \/ coin
            outcome == ExecuteTradeOutcome(failAt, sufficient, isBuy)
        IN  /\ tempWallets' = [tempWallets EXCEPT ![b][w].lastTradeTime =
                       LastTradeTimeAfter(outcome, tempWallets[b][w].lastTradeTime, now)]
            /\ logged' = [logged EXCEPT ![b] = outcome]
            /\ lastReturn' = ReturnedAt(lastReturn, b, w, now)
    /\ pc' = [pc EXCEPT ![b] = "jitter"]
    /\ UNCHANGED <<variant, isRunning, bots, chainConfig, walletFile, now, running,
                   activeWallets, eligible, idx, tempWalletCount, rpc, mainVars>>
    /\ UNCHANGED trade

\* variant of JitterDone that hands the same wallet to executeTrade again
JitterDoneRepeat(b) ==
    /\ pc[b] = "jitter"
    /\ pc' = [pc EXCEPT ![b] = "trade"]
    /\ logged' = [logged EXCEPT ![b] = ""]
    /\ UNCHANGED <<variant, isRunning, bots, chainConfig, walletFile, now, running,
                   tempWallets, activeWallets, eligible, idx, tempWalletCount, rpc,
                   mainVars, trade, lastReturn>>

\* the jitter sleep ends: the next eligible wallet, or the write of the wallet file
JitterDone(b) ==
    /\ pc[b] = "jitter"
    /\ IF idx[b] < Len(eligible[b])
       THEN /\ idx' = [idx EXCEPT ![b] = idx[b] + 1]
            /\ pc' = [pc EXCEPT ![b] = "trade"]
            /\ logged' = [logged EXCEPT ![b] = ""]
            /\ UNCHANGED <<walletFile, eligible>>
       ELSE \E fsOk \in BOOLEAN : PersistAndSleep(b, tempWallets[b], fsOk)
    /\ UNCHANGED <<variant, isRunning, bots, chainConfig, now, running, tempWallets,
                   activeWallets, tempWalletCount, rpc, mainVars>>
    /\ UNCHANGED <<trade, lastReturn>>

\* a sleep ends and the loop is back at its top: the while condition, the occasional
\* updateActiveWallets, and the call of getGasPrice
LoopTop(b) ==
    /\ pc[b] \in SleepPcs
    /\ IF LoopCondition(b)
       THEN /\ pc' = [pc EXCEPT ![b] = "gas"]
            /\ logged' = [logged EXCEPT ![b] = ""]
            /\ \/ UNCHANGED activeWallets
               \/ \E shuffled \in Shuffles(Len(tempWallets[b])) :
                    activeWallets' = [activeWallets EXCEPT ![b] =
                         UpdateActiveWallets(tempWallets[b], shuffled)]
       ELSE /\ pc' = [pc EXCEPT ![b] = "stopped"]
            /\ logged' = [logged EXCEPT ![b] = "tradingStopped"]
            /\ UNCHANGED activeWallets
    /\ UNCHANGED <<variant, isRunning, bots, chainConfig, walletFile, now, running,
                   tempWallets, eligible, idx, tempWalletCount, rpc, mainVars>>
    /\ UNCHANGED <<trade, lastReturn>>

\* time passes
Tick ==
    /\ now < StartTime + MaxTicks
    /\ \E b \in Bots : pc[b] \in LoopPcs
    /\ now' = now + 1
    /\ UNCHANGED <<variant, isRunning, bots, chainConfig, walletFile, botVars, mainVars>>
    /\ UNCHANGED <<trade, lastReturn>>

-----------------------------------------------------------------------------
(* server.js: main(). *)

\* one pass of for (const chain of CHAINS), up to the await of bot.initialize(); after
\* the last chain, Promise.all(bots.map((bot) => bot.startTrading()))
MainStep(count) ==
    /\ variant = "server"
    /\ mainPc = "loop"
    /\ IF chainIdx > Len(chains)
       THEN /\ mainPc' = "trading"
            /\ pc' = [b \in Bots |-> IF pc[b] = "ready" THEN "gas" ELSE pc[b]]
            /\ UNCHANGED <<chainIdx, running, tempWallets, activeWallets,
                           tempWalletCount>>
       ELSE IF chains[chainIdx] \in SupportedChains
       THEN /\ Construct(Len(bots) + 1, count)
            /\ pc' = [pc EXCEPT ![Len(bots) + 1] = "checkBalance"]
            /\ mainPc' = "initializing"
            /\ UNCHANGED chainIdx
       ELSE /\ chainIdx' = chainIdx + 1
            /\ UNCHANGED <<mainPc, pc, running, tempWallets, activeWallets,
                           tempWalletCount>>
    /\ UNCHANGED <<variant, isRunning, bots, chainConfig, walletFile, now, eligible,
                   idx, rpc, logged, chains>>
    /\ UNCHANGED <<trade, lastReturn>>

-----------------------------------------------------------------------------
(* executeTrade(walletInfo), call by call.  Amounts of AVAX are counted in        *)
(* 1e-4 AVAX, the drawn trade amount in 1 / AmountScale of that, token amounts    *)
(* and quotes in wei, and the balance, gas price and value of the sweep in gwei.  *)

\* no invocation of executeTrade is being followed
NoTrade ==
    [pc |-> "idle", calls |-> <<>>, AVAXBalance |-> None, tokenBalance |-> None,
     tradeAmount |-> None, isBuy |-> FALSE, quoted |-> None, minOut |-> None,
     walletBalance |-> None, fundBalance |-> None, fundValue |-> None,
     sweepBalance |-> None, sweepGasPrice |-> None, sweepValue |-> None]

\* the positions inside fundWallet and inside returnFundsToMain
FundPcs == {"fund", "fundGasPrice", "fundSend", "fundConfirm"}
SweepPcs == {"sweep", "sweepGasPrice", "sweepSend", "sweepConfirm"}

\* the positions at which executeTrade has returned
TradeDone == {"executed", "insufficient", "failed"}

\* inputs of an invocation
WalletBalances == {200, 5000}
TokenBalances == {0, 1}
\* the pairs of minAmountAVAX and maxAmountAVAX an operator may have configured
AmountConfigs == {<<0, 0>>, <<0, 300>>, <<100, 300>>, <<300, 300>>, <<300, 100>>}
Draws == 0..(RandomSteps - 1)
\* what the wallet holds after a sell, and the gas price read by the sweep (gwei)
SweepBalances == {0, 400000, 5000000, 50000000}
SweepGasPrices == {25, 100}

\* the trade amount is kept as a whole number of 1 / AmountScale of 1e-4 AVAX
AmountScale == InverseRandomVariance * RandomSteps * RandomSteps

\* variant of GenerateRandomAmount with twice the variance
GenerateRandomAmountWide(r1, r2) ==
    LET lo == chainConfig.minAmountAVAX
        hi == chainConfig.maxAmountAVAX
        baseAmount == RandomSteps * lo + r1 * (hi - lo)
    IN  baseAmount * (InverseRandomVariance * RandomSteps + 2 * (2 * r2 - RandomSteps))

(***************************************************************************)
(* generateRandomAmount, for Math.random() = r1 / RandomSteps and then     *)
(* r2 / RandomSteps:                                                       *)
(*   baseAmount = min + (r1 / RandomSteps) * (max - min)                   *)
(*   variance   = baseAmount * RANDOM_VARIANCE * (2 * r2 / RandomSteps - 1)*)
(* The result is baseAmount + variance, times AmountScale.                 *)
(***************************************************************************)
GenerateRandomAmount(r1, r2) ==
    LET lo == chainConfig.minAmountAVAX
        hi == chainConfig.maxAmountAVAX
        baseAmount == RandomSteps * lo + r1 * (hi - lo)
    IN  baseAmount * (InverseRandomVariance * RandomSteps + (2 * r2 - RandomSteps))

\* variant of IsBuy that leaves the direction to the coin alone
IsBuyByCoin(canSell, coin) == coin

\* const isBuy = !canSell || Math.random() > 0.5
IsBuy(canSell, coin) == ~canSell \/ coin

\* the quotes q = 10 (mod 20) for which the double product falls below q * 0.95
TiesRoundedDown == {50}

(***************************************************************************)
(* ethers.utils.parseEther((Number(expectedOutput) * 0.95).toFixed(18)),   *)
(* for a quote of q wei.  formatEther prints q * 1e-18, Number and the     *)
(* product are correctly rounded doubles (relative error below 2^-51), and *)
(* toFixed(18) prints the multiple of 1e-18 nearest the double: that is    *)
(* 19q/20 rounded to the nearest whole number of wei, except when 19q/20   *)
(* lies half-way, where the error of the double decides (up for q = 10 and *)
(* 30, down for q = 50).  A quote of 0 prints "0.0", which is truthy.      *)
(***************************************************************************)
MinOutToFixed(q) ==
    IF q \in TiesRoundedDown THEN (19 * q) \div 20 ELSE (19 * q + 10) \div 20

(***************************************************************************)
(* ethers.utils.parseEther((Number(expectedOutput) * 0.95).toString()),    *)
(* the buy path of server.js.  Number.prototype.toString prints a value    *)
(* below 1e-6 in exponent notation ("9.5e-19"), which parseEther rejects   *)
(* by throwing; 0 prints as "0".  The result is None when it throws.       *)
(***************************************************************************)
MinOutToString(q) == IF q = 0 THEN 0 ELSE None

\* minOut = expectedOutput ? parseEther(...) : 0; quoted is None when
\* calculateSlippage caught the rejection of getAmountsOut and returned null
MinOut(isBuy, quoted) ==
    IF quoted = None THEN 0
    ELSE IF isBuy /\ variant = "server" THEN MinOutToString(quoted)
    ELSE MinOutToFixed(quoted)

\* variant of AfterConfirm that sweeps after a buy too
AfterConfirmSweep(isBuy) == "sweep"

\* executeTrade after the swap has been confirmed: returnFundsToMain follows a sell
AfterConfirm(isBuy) == IF isBuy THEN "executed" ELSE "sweep"

\* executeTrade leaves the loop's own state alone (lastTradeTime is the stamp that
\* the position "executed" stands for)
LoopUnchanged ==
    UNCHANGED <<variant, isRunning, bots, chainConfig, walletFile, now, botVars,
                mainVars, lastReturn>>

\* the awaited call at trade.pc has resolved: on to the position next
Resolves(next) ==
    trade' = [trade EXCEPT !.pc = next, !.calls = Append(trade.calls, trade.pc)]

\* the awaited call at trade.pc has rejected: executeTrade's catch logs and returns
Rejects == trade' = [trade EXCEPT !.pc = "failed"]

\* the loop calls executeTrade(wallet), a wallet that holds walletBalance: up to
\* the await of provider.getBalance in fundWallet
ExecuteTradeCalled ==
    /\ trade.pc \in TradeDone \cup {"idle"}
    /\ \E balance \in WalletBalances :
         trade' = [NoTrade EXCEPT !.pc = "fund", !.walletBalance = balance]
    /\ LoopUnchanged

\* variant of FundNeeded that tops up every wallet
FundNeededAlways(balanceAVAX) == TRUE

\* fundWallet: balanceAVAX < GLOBAL_CONFIG.WALLET_FUND_THRESHOLD
FundNeeded(balanceAVAX) == balanceAVAX < WALLET_FUND_THRESHOLD

\* fundWallet: parseEther of the configured fundAmount, the value of the transfer
FundValue == chainConfig.fundAmount

\* an awaited call of fundWallet has rejected: fundWallet's catch logs, fundWallet
\* returns, and executeTrade goes on to its own getBalance
FundCaught ==
    trade' = [trade EXCEPT !.pc = "balance",
                           !.calls = Append(trade.calls, "fundCaught")]

\* fundWallet: provider.getBalance(walletAddress), then the threshold test
FundGetBalanceReturns ==
    /\ trade.pc = "fund"
    /\ \/ FundCaught
       \/ trade' = [trade EXCEPT
                      !.pc = IF FundNeeded(trade.walletBalance)
                             THEN "fundGasPrice" ELSE "balance",
                      !.calls = Append(trade.calls, "fund"),
                      !.fundBalance = trade.walletBalance]
    /\ LoopUnchanged

\* fundWallet: provider.getGasPrice() for the transfer
FundGetGasPriceReturns ==
    /\ trade.pc = "fundGasPrice"
    /\ \/ FundCaught
       \/ Resolves("fundSend")
    /\ LoopUnchanged

\* fundWallet: mainWallet.sendTransaction({to: walletAddress, value: fundAmount})
FundSendReturns ==
    /\ trade.pc = "fundSend"
    /\ \/ FundCaught
       \/ trade' = [trade EXCEPT !.pc = "fundConfirm",
                                 !.calls = Append(trade.calls, "fundSend"),
                                 !.fundValue = FundValue]
    /\ LoopUnchanged

\* fundWallet: tx.wait(); when it resolves the transfer is on the chain and
\* fundWallet returns; when it rejects the transfer may or may not have arrived
FundWalletReturns ==
    /\ trade.pc = "fundConfirm"
    /\ \/ trade' = [trade EXCEPT
                      !.pc = "balance",
                      !.calls = Append(trade.calls, "fundConfirm"),
                      !.walletBalance = trade.walletBalance + trade.fundValue]
       \/ \E arrived \in BOOLEAN :
            trade' = [trade EXCEPT
                      !.pc = "balance",
                      !.calls = Append(trade.calls, "fundCaught"),
                      !.walletBalance = IF arrived
                                        THEN trade.walletBalance + trade.fundValue
                                        ELSE trade.walletBalance]
    /\ LoopUnchanged

\* executeTrade: provider.getBalance(wallet.address) reads what the wallet holds
GetBalanceReturns ==
    /\ trade.pc = "balance"
    /\ \/ Rejects
       \/ trade' = [trade EXCEPT !.pc = "tokenBalance",
                                 !.calls = Append(trade.calls, "balance"),
                                 !.AVAXBalance = trade.walletBalance]
    /\ LoopUnchanged

\* variant of InsufficientBalance that lets every wallet trade
InsufficientBalanceNever(AVAXBalanceNum, tradeAmount) == FALSE

\* AVAXBalanceNum < tradeAmount + GLOBAL_CONFIG.MIN_AVAX_BALANCE
InsufficientBalance(AVAXBalanceNum, tradeAmount) ==
    AVAXBalanceNum * AmountScale < tradeAmount + MIN_AVAX_BALANCE * AmountScale

\* targetTokenContract.balanceOf, then the amount, the balance check and the direction
BalanceOfReturns ==
    /\ trade.pc = "tokenBalance"
    /\ \/ Rejects
       \/ \E tokens \in TokenBalances, r1, r2 \in Draws, coin \in BOOLEAN :
            LET amount == GenerateRandomAmount(r1, r2)
            IN  trade' = [trade EXCEPT
                    !.calls = Append(trade.calls, "tokenBalance"),
                    !.tokenBalance = tokens,
                    !.tradeAmount = amount,
                    !.isBuy = IsBuy(tokens > 0, coin),
                    !.pc = IF InsufficientBalance(trade.AVAXBalance, amount)
                           THEN "insufficient" ELSE "gasPrice"]
    /\ LoopUnchanged

\* provider.getGasPrice(), then buyTokensWithAVAX or sellTokensForAVAX up to its first await
GetGasPriceReturns ==
    /\ trade.pc = "gasPrice"
    /\ \/ Rejects
       \/ Resolves(IF trade.isBuy THEN "quote" ELSE "approve")
    /\ LoopUnchanged

\* sellTokensForAVAX: targetTokenContract.connect(wallet).approve(router, amountIn)
ApproveReturns ==
    /\ trade.pc = "approve"
    /\ \/ Rejects
       \/ Resolves("quote")
    /\ LoopUnchanged

\* calculateSlippage returns the quote or null, and minOut is computed
CalculateSlippageReturns ==
    /\ trade.pc = "quote"
    /\ \E quoted \in {None} \cup 0..MaxQuote :
         IF quoted # None /\ MinOut(trade.isBuy, quoted) = None
         THEN trade' = [trade EXCEPT !.pc = "failed", !.quoted = quoted]
         ELSE trade' = [trade EXCEPT
                 !.pc = IF ~trade.isBuy /\ variant = "server" THEN "nonce" ELSE "swap",
                 !.calls = Append(trade.calls, "quote"),
                 !.quoted = quoted,
                 !.minOut = MinOut(trade.isBuy, quoted)]
    /\ LoopUnchanged

\* server.js, sellTokensForAVAX: wallet.getTransactionCount("latest")
GetTransactionCountReturns ==
    /\ trade.pc = "nonce"
    /\ \/ Rejects
       \/ Resolves("swap")
    /\ LoopUnchanged

\* the router's swap call is submitted
SwapReturns ==
    /\ trade.pc = "swap"
    /\ \/ Rejects
       \/ Resolves("confirm")
    /\ LoopUnchanged

\* tx.wait(): the swap is confirmed or reverts
WaitReturns ==
    /\ trade.pc = "confirm"
    /\ \/ Rejects
       \/ Resolves(AfterConfirm(trade.isBuy))
    /\ LoopUnchanged

\* an awaited call of returnFundsToMain has rejected: its catch logs, it returns,
\* and executeTrade goes on to stamp the wallet
SweepCaught ==
    trade' = [trade EXCEPT !.pc = "executed",
                           !.calls = Append(trade.calls, "sweepCaught")]

\* server.js: if (balance.gt(parseEther("0.01"))); mysever.js has no such test
AboveReserve(balance) ==
    IF variant = "server" THEN balance > SweepReserve ELSE TRUE

\* returnFundsToMain: provider.getBalance(wallet.address)
SweepGetBalanceReturns ==
    /\ trade.pc = "sweep"
    /\ \/ SweepCaught
       \/ \E balance \in SweepBalances :
            trade' = [trade EXCEPT
                        !.pc = IF AboveReserve(balance)
                               THEN "sweepGasPrice" ELSE "executed",
                        !.calls = Append(trade.calls, "sweep"),
                        !.sweepBalance = balance]
    /\ LoopUnchanged

\* amountToSend = balance.sub(gasPrice.mul(gasLimit))
AmountToSend(balance, gasPrice) == balance - gasPrice * GasLimit

\* returnFundsToMain: provider.getGasPrice(), then if (amountToSend.gt(0))
SweepGetGasPriceReturns ==
    /\ trade.pc = "sweepGasPrice"
    /\ \/ SweepCaught
       \/ \E gasPrice \in SweepGasPrices :
            trade' = [trade EXCEPT
                        !.pc = IF AmountToSend(trade.sweepBalance, gasPrice) > 0
                               THEN "sweepSend" ELSE "executed",
                        !.calls = Append(trade.calls, "sweepGasPrice"),
                        !.sweepGasPrice = gasPrice]
    /\ LoopUnchanged

\* returnFundsToMain: wallet.sendTransaction({to: main, value: amountToSend, gasLimit,
\* gasPrice})
SweepSendReturns ==
    /\ trade.pc = "sweepSend"
    /\ \/ SweepCaught
       \/ trade' = [trade EXCEPT
                      !.pc = "sweepConfirm",
                      !.calls = Append(trade.calls, "sweepSend"),
                      !.sweepValue = AmountToSend(trade.sweepBalance,
                                                  trade.sweepGasPrice)]
    /\ LoopUnchanged

\* returnFundsToMain: tx.wait(), and returnFundsToMain returns
ReturnFundsToMainReturns ==
    /\ trade.pc = "sweepConfirm"
    /\ \/ SweepCaught
       \/ Resolves("executed")
    /\ LoopUnchanged

\* executeTrade on its own, on a wallet of a bot that is not looking
NextTrade ==
    \/ ExecuteTradeCalled
    \/ FundGetBalanceReturns
    \/ FundGetGasPriceReturns
    \/ FundSendReturns
    \/ FundWalletReturns
    \/ GetBalanceReturns
    \/ BalanceOfReturns
    \/ GetGasPriceReturns
    \/ ApproveReturns
    \/ CalculateSlippageReturns
    \/ GetTransactionCountReturns
    \/ SwapReturns
    \/ WaitReturns
    \/ SweepGetBalanceReturns
    \/ SweepGetGasPriceReturns
    \/ SweepSendReturns
    \/ ReturnFundsToMainReturns

-----------------------------------------------------------------------------
(* Specifications. *)

EmptyBots ==
    /\ pc = [b \in Bots |-> "unborn"]
    /\ running = [b \in Bots |-> FALSE]
    /\ tempWallets = [b \in Bots |-> <<>>]
    /\ activeWallets = [b \in Bots |-> {}]
    /\ eligible = [b \in Bots |-> <<>>]
    /\ idx = [b \in Bots |-> 0]
    /\ tempWalletCount = [b \in Bots |-> 0]
    /\ rpc = [b \in Bots |-> None]
    /\ logged = [b \in Bots |-> ""]

\* CHAIN_CONFIG.avax as the file defines it
DefaultChainConfig ==
    [maxGasPrice |-> DefaultMaxGasPrice,
     minInterval |-> DefaultMinInterval,
     maxInterval |-> DefaultMaxInterval,
     minAmountAVAX |-> DefaultMinAmountAVAX,
     maxAmountAVAX |-> DefaultMaxAmountAVAX,
     fundAmount |-> DefaultFundAmount]

\* mysever.js after app.listen
Init ==
    /\ variant = "mysever"
    /\ isRunning = FALSE
    /\ bots = <<>>
    /\ chainConfig = DefaultChainConfig
    /\ walletFile = NoFile
    /\ now = StartTime
    /\ EmptyBots
    /\ mainPc = "none"
    /\ chains = <<>>
    /\ chainIdx = 0
    /\ trade = NoTrade
    /\ lastReturn = NoHistory

\* mysever.js after app.listen, with the history of returns kept from then on
InitRetry ==
    /\ variant = "mysever"
    /\ isRunning = FALSE
    /\ bots = <<>>
    /\ chainConfig = DefaultChainConfig
    /\ walletFile = NoFile
    /\ now = StartTime
    /\ EmptyBots
    /\ mainPc = "none"
    /\ chains = <<>>
    /\ chainIdx = 0
    /\ trade = NoTrade
    /\ lastReturn = EmptyHistory

\* server.js when main() is called
InitMain ==
    /\ variant = "server"
    /\ isRunning = FALSE
    /\ bots = <<>>
    /\ chainConfig = DefaultChainConfig
    /\ walletFile = NoFile
    /\ now = StartTime
    /\ EmptyBots
    /\ mainPc = "loop"
    /\ chains \in ChainLists
    /\ chainIdx = 1
    /\ trade = NoTrade
    /\ lastReturn = NoHistory

\* mysever.js once /api/start has been given walletCounts = n and the main wallet's
\* balance has come back
InitActive ==
    /\ variant = "mysever"
    /\ isRunning = FALSE
    /\ bots = <<>>
    /\ chainConfig = DefaultChainConfig
    /\ walletFile = NoFile
    /\ now = StartTime
    /\ pc = [b \in Bots |-> IF b = 1 THEN "gotBalance" ELSE "unborn"]
    /\ running = [b \in Bots |-> FALSE]
    /\ tempWallets = [b \in Bots |-> <<>>]
    /\ activeWallets = [b \in Bots |-> {}]
    /\ eligible = [b \in Bots |-> <<>>]
    /\ idx = [b \in Bots |-> 0]
    /\ \E n \in 0..MaxPoolSize :
         tempWalletCount = [b \in Bots |-> IF b = 1 THEN n ELSE 0]
    /\ rpc = [b \in Bots |-> IF b = 1 THEN MIN_AVAX_BALANCE ELSE None]
    /\ logged = [b \in Bots |-> ""]
    /\ mainPc = "none"
    /\ chains = <<>>
    /\ chainIdx = 0
    /\ trade = NoTrade
    /\ lastReturn = NoHistory

BotStep(b) ==
    \/ CheckBalanceReturns(b)
    \/ InitContinue(b)
    \/ GasReturns(b)
    \/ GasContinue(b)
    \/ TradeReturns(b)
    \/ JitterDone(b)
    \/ LoopTop(b)

\* a start request without overrides, sent when no earlier one is being served and no
\* loop is left, or while the running flag is up
OrderlyStart(count) ==
    /\ isRunning \/ \A b \in Bots : pc[b] \notin InitPcs \cup LoopPcs
    /\ ApiStart(count, NoOverrides)

\* mysever.js driven by an operator who waits for a start or a stop to finish
Next ==
    \/ \E count \in WalletCountInputs : OrderlyStart(count)
    \/ ApiStop
    \/ \E b \in Bots : BotStep(b)

\* a stop request that arrives while executeTrade is in flight
StopMidTrade ==
    /\ \E b \in Bots : pc[b] = "trade" /\ running[b]
    /\ ApiStop

\* mysever.js when every stop request arrives in the middle of a trade
NextMidTrade ==
    \/ \E count \in WalletCountInputs : OrderlyStart(count)
    \/ StopMidTrade
    \/ \E b \in Bots : BotStep(b)

\* a start request that may carry overrides, sent as OrderlyStart's is
ConfiguredStart(count, ov) ==
    /\ isRunning \/ \A b \in Bots : pc[b] \notin InitPcs \cup LoopPcs
    /\ ApiStart(count, ov)

\* mysever.js configured by its start request and left to run while time passes
NextElig ==
    \/ \E count \in WalletCountInputs, ov \in OverrideInputs : ConfiguredStart(count, ov)
    \/ \E b \in Bots : BotStep(b)
    \/ Tick

\* mysever.js driven as in Next, by start requests that ask for pools of two sizes
NextLoad ==
    \/ \E count \in WalletCountInputs \cup SmallWalletCountInputs : OrderlyStart(count)
    \/ ApiStop
    \/ \E b \in Bots : BotStep(b)

\* mysever.js with requests arriving at any time
NextRace ==
    \/ \E count \in SmallWalletCountInputs : ApiStart(count, NoOverrides)
    \/ ApiStop
    \/ \E b \in Bots : BotStep(b)

\* the step of bot b is not a failed write of the wallet file in the loop
WriteSucceeds(b) == ~(pc[b] \in {"gotGas", "jitter"} /\ pc'[b] = "errWait")

\* a start request sent when no earlier start request is still being served
SerialStart(count) ==
    /\ \A b \in Bots : pc[b] \notin InitPcs
    /\ ApiStart(count, NoOverrides)

\* mysever.js driven by an operator who waits for the answer to a request before
\* sending the next one, but not for a stopped loop to end
NextSerial ==
    \/ \E count \in SmallWalletCountInputs : SerialStart(count)
    \/ ApiStop
    \/ \E b \in Bots : BotStep(b)

\* the same, on a file system on which the loop's writes of the wallet file succeed
NextWrites ==
    \/ \E count \in SmallWalletCountInputs : SerialStart(count)
    \/ ApiStop
    \/ \E b \in Bots : BotStep(b) /\ WriteSucceeds(b)

\* a start request that may carry overrides, sent when no earlier start request is
\* still being served
SerialConfiguredStart(count, ov) ==
    /\ \A b \in Bots : pc[b] \notin InitPcs
    /\ ApiStart(count, ov)

\* mysever.js driven by an operator who waits for the answer to a request before
\* sending the next one, with or without overrides
NextConfig ==
    \/ \E count \in SmallWalletCountInputs, ov \in OverrideInputs :
          SerialConfiguredStart(count, ov)
    \/ ApiStop
    \/ \E b \in Bots : BotStep(b)

\* executeTrade, followed call by call, returns to the loop of bot b with the outcome
\* it reached; the loop starts the jitter sleep
ExecuteTradeReturns(b) ==
    /\ pc[b] = "trade"
    /\ trade.pc \in TradeDone
    /\ LET w == eligible[b][idx[b]]
       IN  /\ tempWallets' = [tempWallets EXCEPT ![b][w].lastTradeTime =
                      LastTradeTimeAfter(trade.pc, tempWallets[b][w].lastTradeTime, now)]
           /\ lastReturn' = ReturnedAt(lastReturn, b, w, now)
    /\ logged' = [logged EXCEPT ![b] = trade.pc]
    /\ pc' = [pc EXCEPT ![b] = "jitter"]
    /\ trade' = NoTrade
    /\ UNCHANGED <<variant, isRunning, bots, chainConfig, walletFile, now, running,
                   activeWallets, eligible, idx, tempWalletCount, rpc, mainVars>>

\* a call of the executeTrade that the loop of bot b is waiting for returns; the
\* router, when it quotes, quotes MaxQuote
ExecuteTradeStep(b) ==
    /\ pc[b] = "trade"
    /\ trade.pc \notin TradeDone
    /\ NextTrade
    /\ trade'.quoted \in {None, MaxQuote}

\* the steps of bot b with executeTrade followed call by call
CycleStep(b) ==
    \/ CheckBalanceReturns(b)
    \/ InitContinue(b)
    \/ GasReturns(b)
    \/ GasContinue(b)
    \/ ExecuteTradeStep(b)
    \/ ExecuteTradeReturns(b)
    \/ JitterDone(b)
    \/ LoopTop(b)

\* mysever.js started once, each trade of its loop followed call by call
NextCycle ==
    \/ \E count \in WalletCountInputs : OrderlyStart(count)
    \/ \E b \in Bots : CycleStep(b)

\* the step of bot b does not end in the sleep of RETRY_DELAY: the gas price was read
\* and accepted and the wallet file was written
NoRetryDelay(b) == pc'[b] \notin {"gasWait", "errWait"}

\* mysever.js over cycles that are CHECK_INTERVAL apart, which is less than the unit
\* of time, so that time may or may not have moved on from one cycle to the next
NextRetry ==
    \/ \E count \in WalletCountInputs : OrderlyStart(count)
    \/ \E b \in Bots : BotStep(b) /\ NoRetryDelay(b)
    \/ Tick

\* server.js
NextMain ==
    \/ \E count \in WalletCountInputs : MainStep(count)
    \/ \E b \in Bots : BotStep(b)
    \/ Tick

Spec == Init /\ [][Next]_vars

SpecMidTrade == Init /\ [][NextMidTrade]_vars

SpecConfig == Init /\ [][NextConfig]_vars

SpecElig == Init /\ [][NextElig]_vars

SpecLoad == Init /\ [][NextLoad]_vars

SpecRace == Init /\ [][NextRace]_vars

SpecSerial == Init /\ [][NextSerial]_vars

SpecWrites == Init /\ [][NextWrites]_vars

SpecRetry == InitRetry /\ [][NextRetry]_vars

SpecCycle == Init /\ [][NextCycle]_vars

SpecMain == InitMain /\ [][NextMain]_vars

\* either program, with the amounts an operator configured, when executeTrade is called
InitTrade ==
    /\ variant \in {"mysever", "server"}
    /\ isRunning = FALSE
    /\ bots = <<>>
    /\ \E amounts \in AmountConfigs :
         chainConfig = [DefaultChainConfig EXCEPT !.minAmountAVAX = amounts[1],
                                                  !.maxAmountAVAX = amounts[2]]
    /\ walletFile = NoFile
    /\ now = StartTime
    /\ EmptyBots
    /\ mainPc = "none"
    /\ chains = <<>>
    /\ chainIdx = 0
    /\ trade = NoTrade
    /\ lastReturn = NoHistory

SpecTrade == InitTrade /\ [][NextTrade]_vars

\* pools of every size up to MaxPoolSize: the pool is created and the loop comes back
\* to its top after each failed gas query
NextActive == \E b \in Bots : InitContinue(b) \/ GasReturns(b) \/ LoopTop(b)

SpecActive == InitActive /\ [][NextActive]_vars

\* every pending chain call and timed sleep eventually returns
FairSpec == Spec /\ \A b \in Bots : WF_vars(BotStep(b))

-----------------------------------------------------------------------------
(* The claims. *)

\* the wallet executeTrade is running on, or has just run on
Current(b) == eligible[b][idx[b]]

\* the addresses of a pool
Addresses(tw) == {tw[i].address : i \in 1..Len(tw)}

(* C1: in every cycle, a queried gas price above maxGasPrice sends the loop to the
   retry sleep without a trade, and a gas price at or below maxGasPrice (the price
   equal to maxGasPrice included) lets the cycle go on to the eligibility scan. *)
C1_GasGate ==
    [][\A b \in Bots :
         (pc[b] = "gotGas" /\ pc'[b] # "gotGas") =>
             IF rpc[b] > chainConfig.maxGasPrice
             THEN pc'[b] = "gasWait"
             ELSE pc'[b] \in {"trade", "cycleWait", "errWait"}]_vars

(* C2: whatever the interleaving of start and stop requests, there are never two
   trading loops with their running flag up: a start that arrives while an earlier
   accepted one is still served does not bring a second loop. *)
C2_ExactlyOnceStart ==
    Cardinality({b \in Bots : pc[b] \in LoopPcs /\ running[b]}) <= 1

(* C3, as claimed: when executeTrade returns to the loop, whatever its outcome, the
   wallet's lastTradeTime is the time of the attempt. *)
C3_AlwaysAdvanced ==
    [][\A b \in Bots :
         (pc[b] = "trade" /\ pc'[b] = "jitter") =>
             tempWallets'[b][Current(b)].lastTradeTime = now]_vars

(* C3, amended: when executeTrade returns to the loop, the wallet's lastTradeTime is
   the time of the attempt if the trade was executed (the swap, and after a sell the
   sweep call, returned), and is what it was before if the trade was given up for
   insufficient balance or a chain call threw. *)
C3_AdvancedIffExecuted ==
    [][\A b \in Bots :
         (pc[b] = "trade" /\ pc'[b] = "jitter") =>
             tempWallets'[b][Current(b)].lastTradeTime =
                 IF logged'[b] = "executed"
                 THEN now
                 ELSE tempWallets[b][Current(b)].lastTradeTime]_vars

\* a trade that failed has returned and the wallet still carries its old lastTradeTime
C3_Witness ==
    \E b \in Bots :
        /\ pc[b] = "jitter"
        /\ logged[b] \in {"failed", "insufficient"}
        /\ tempWallets[b][Current(b)].lastTradeTime < now

(* C4: once the stop flag of a loop is down, and every pending chain call and sleep
   returns, the loop reaches Stopped; a trade in flight is not cut short (it returns
   to the loop, which goes on to the jitter sleep); a stopped loop stays stopped. *)
C4_CooperativeStop ==
    /\ \A b \in Bots : (pc[b] \in LoopPcs /\ ~running[b]) ~> (pc[b] = "stopped")
    /\ [][\A b \in Bots :
            /\ pc[b] = "trade" => pc'[b] \in {"trade", "jitter"}
            /\ pc[b] = "stopped" => pc'[b] = "stopped"]_vars

\* a loop that was stopped while its trade was in flight
C4_Witness ==
    \E b \in Bots : pc[b] = "trade" /\ ~running[b]

(* C5: when stop is requested while the trade of an eligible wallet is in flight,
   that trade returns and, its jitter sleep over, no further eligible wallet of the
   cycle is traded.  (Stated of runs in which every stop request arrives while a
   trade is in flight.) *)
C5_NoTradeAfterStop ==
    [][\A b \in Bots :
         (pc[b] = "jitter" /\ ~running[b]) => pc'[b] # "trade"]_vars

(* C6: a trade that failed is caught inside executeTrade: the loop goes on to the
   jitter sleep with its list of eligible wallets and its position untouched, after
   every jitter sleep the next eligible wallet is traded, and after the last one
   the wallet file is written. *)
C6_FailureIsolated ==
    [][\A b \in Bots :
         /\ (pc[b] = "trade" /\ pc'[b] # "trade") =>
                /\ pc'[b] = "jitter"
                /\ eligible'[b] = eligible[b]
                /\ idx'[b] = idx[b]
         /\ (pc[b] = "jitter" /\ pc'[b] # "jitter") =>
                IF idx[b] < Len(eligible[b])
                THEN pc'[b] = "trade" /\ idx'[b] = idx[b] + 1
                     /\ eligible'[b] = eligible[b]
                ELSE /\ pc'[b] \in {"cycleWait", "errWait"}
                     /\ pc'[b] = "cycleWait" => walletFile'.data = tempWallets[b]]_vars

\* the first of two eligible wallets failed and the second is being traded
C6_Witness ==
    \E b \in Bots :
        /\ pc[b] = "trade"
        /\ idx[b] = 2
        /\ tempWallets[b][eligible[b][1]].lastTradeTime = 0

(* C7: no failure inside a cycle ends the loop: a failed gas query or wallet-file
   write leads to the retry sleep, after which a loop whose flag is up starts a new
   cycle; a loop is left only from a sleep, to Stopped, with its flag down; and the
   flag goes down only when a stop request takes down the process-wide flag too. *)
C7_LoopNeverFatal ==
    [][\A b \in Bots :
         /\ (pc[b] \in LoopPcs /\ pc'[b] \notin LoopPcs) =>
                pc[b] \in SleepPcs /\ pc'[b] = "stopped" /\ ~running[b]
         /\ (pc[b] \in LoopPcs /\ logged'[b] = "loopError" /\ pc'[b] # pc[b]) =>
                pc'[b] = "errWait"
         /\ (pc[b] = "errWait" /\ pc'[b] # "errWait" /\ running[b]) => pc'[b] = "gas"
         /\ (running[b] /\ ~running'[b]) => (~isRunning' /\ pc' = pc)]_vars

\* the loop sleeps the retry delay after a failure of its own
C7_Witness ==
    \E b \in Bots : pc[b] = "errWait" /\ logged[b] = "loopError" /\ running[b]

(* C8: once the main wallet's balance is known, initialize() goes on to the wallet
   pool and the trading loop when the balance is at or above the floor (it can then
   fail only in reading or writing the wallet file) and fails when it is below; on
   that failure the wallet file, the bot's pool, the bots array and the bots' own
   flags are left as they were and the process-wide flag is down; and a start
   request that finds only failed initializations behind it is accepted. *)
C8_BalanceFloor ==
    [][\A b \in Bots :
         /\ (pc[b] = "gotBalance" /\ pc'[b] # "gotBalance") =>
                IF rpc[b] < MIN_AVAX_BALANCE
                THEN /\ pc'[b] = "initFailed"
                     /\ walletFile' = walletFile
                     /\ tempWallets'[b] = <<>>
                     /\ bots' = bots
                     /\ ~isRunning'
                     /\ running' = running
                ELSE \/ pc'[b] = "gas" /\ running'[b] /\ isRunning'
                     \/ pc'[b] = "initFailed" /\ logged'[b] = "walletInitError"
         /\ (/\ pc[b] = "unborn"
             /\ pc'[b] # "unborn"
             /\ \A q \in Bots \ {b} : pc[q] \in {"unborn", "initFailed"}) =>
                pc'[b] = "checkBalance"]_vars

\* a start was accepted after an initialization that failed on the balance floor
C8_Witness ==
    \E b, q \in Bots :
        /\ pc[q] = "initFailed" /\ logged[q] = "initError" /\ tempWallets[q] = <<>>
        /\ q < b
        /\ pc[b] \in LoopPcs

(* C9: when one of the configured chain keys has no chain configuration, no trading
   loop is started for any chain. *)
C9_UnsupportedChainFatal ==
    (\E i \in 1..Len(chains) : chains[i] \notin SupportedChains) =>
        \A b \in Bots : pc[b] \notin LoopPcs

(* C10: after initializeTempWallets and after every recomputation, the active set is
   a subset of the pool's addresses and has floor(7 * poolSize / 10) members. *)
C10_ActiveSet ==
    \A b \in Bots :
        pc[b] \in LoopPcs =>
            /\ activeWallets[b] \subseteq Addresses(tempWallets[b])
            /\ Cardinality(activeWallets[b]) = (7 * Len(tempWallets[b])) \div 10

\* the positions in the pool that a sequence of positions holds
Range(seq) == {seq[k] : k \in 1..Len(seq)}

\* Date.now() - wallet.lastTradeTime at the scan
Elapsed(b, i) == now - tempWallets[b][i].lastTradeTime

\* a cycle of bot b passes the gas gate and scans the pool
ScanStep(b) == pc[b] = "gotGas" /\ pc'[b] \notin {"gotGas", "gasWait"}

(* C11, as claimed: in a cycle that passes the gas gate the wallets handed to
   executeTrade are those that are active and whose elapsed time is at least a
   delay drawn for each from minInterval..maxInterval; so a wallet that is not
   active or whose elapsed time is below minInterval is not traded, and an active
   wallet whose elapsed time is at least maxInterval is. *)
C11_Eligibility ==
    [][\A b \in Bots :
         ScanStep(b) =>
             /\ \E delay \in [1..Len(tempWallets[b]) ->
                                 chainConfig.minInterval..chainConfig.maxInterval] :
                    Range(eligible'[b]) =
                        {i \in 1..Len(tempWallets[b]) :
                            /\ tempWallets[b][i].address \in activeWallets[b]
                            /\ Elapsed(b, i) >= delay[i]}
             /\ \A i \in 1..Len(tempWallets[b]) :
                    /\ (tempWallets[b][i].address \notin activeWallets[b]
                        \/ Elapsed(b, i) < chainConfig.minInterval)
                           => i \notin Range(eligible'[b])
                    /\ (tempWallets[b][i].address \in activeWallets[b]
                        /\ Elapsed(b, i) >= chainConfig.maxInterval)
                           => i \in Range(eligible'[b])
             /\ eligible'[b] # <<>> => pc'[b] = "trade" /\ idx'[b] = 1]_vars

(* C11, amended: the same, for a configuration with minInterval <= maxInterval. *)
C11_EligibilityOrderedIntervals ==
    [][\A b \in Bots :
         (ScanStep(b) /\ chainConfig.minInterval <= chainConfig.maxInterval) =>
             /\ \E delay \in [1..Len(tempWallets[b]) ->
                                 chainConfig.minInterval..chainConfig.maxInterval] :
                    Range(eligible'[b]) =
                        {i \in 1..Len(tempWallets[b]) :
                            /\ tempWallets[b][i].address \in activeWallets[b]
                            /\ Elapsed(b, i) >= delay[i]}
             /\ \A i \in 1..Len(tempWallets[b]) :
                    /\ (tempWallets[b][i].address \notin activeWallets[b]
                        \/ Elapsed(b, i) < chainConfig.minInterval)
                           => i \notin Range(eligible'[b])
                    /\ (tempWallets[b][i].address \in activeWallets[b]
                        /\ Elapsed(b, i) >= chainConfig.maxInterval)
                           => i \in Range(eligible'[b])
             /\ eligible'[b] # <<>> => pc'[b] = "trade" /\ idx'[b] = 1]_vars

\* with minInterval <= maxInterval, a scan has kept one active wallet and left out
\* another whose elapsed time lies between minInterval and maxInterval
C11_Witness ==
    \E b \in Bots :
        /\ chainConfig.minInterval <= chainConfig.maxInterval
        /\ pc[b] = "trade"
        /\ idx[b] = 1
        /\ \E i \in 1..Len(tempWallets[b]) :
              /\ tempWallets[b][i].address \in activeWallets[b]
              /\ i \notin Range(eligible[b])
              /\ Elapsed(b, i) >= chainConfig.minInterval
              /\ Elapsed(b, i) < chainConfig.maxInterval

\* initializeTempWallets of bot b returns without having thrown
LoadStep(b) == pc[b] = "gotBalance" /\ pc'[b] \notin {"gotBalance", "initFailed"}

(* C12: with no wallet file, initializeTempWallets makes exactly tempWalletCount
   records with lastTradeTime 0 and pairwise distinct addresses and writes them to
   the file at once; with a file, it takes the stored records as they are, in their
   order, whatever their number, and leaves the file alone. *)
C12_PoolLoad ==
    [][\A b \in Bots :
         LoadStep(b) =>
             IF walletFile.exists
             THEN /\ tempWallets'[b] = walletFile.data
                  /\ walletFile' = walletFile
             ELSE /\ Len(tempWallets'[b]) = tempWalletCount[b]
                  /\ \A i \in 1..Len(tempWallets'[b]) :
                         tempWallets'[b][i].lastTradeTime = 0
                  /\ \A i, j \in 1..Len(tempWallets'[b]) :
                         tempWallets'[b][i].address = tempWallets'[b][j].address => i = j
                  /\ walletFile' = [exists |-> TRUE, data |-> tempWallets'[b]]]_vars

\* a bot asked for a pool of another size than the stored one has loaded the stored
\* pool, in which a wallet was traded before
C12_Witness ==
    \E b \in Bots :
        /\ pc[b] = "gas"
        /\ logged[b] = "initialized"
        /\ tempWallets[b] = walletFile.data
        /\ Len(tempWallets[b]) # tempWalletCount[b]
        /\ \E i \in 1..Len(tempWallets[b]) : tempWallets[b][i].lastTradeTime > 0

(* C13: whenever a loop whose flag is up starts a cycle (the first one, or the one
   after a normal cycle, a gas-skipped cycle or a failed gas query), whatever start
   and stop requests came before, the wallet file holds the in-memory pool of that
   loop.  (Stated of runs in which no write of the wallet file fails.) *)
C13_PersistedAtCycleStart ==
    [][\A b \in Bots :
         (pc[b] # "gas" /\ pc'[b] = "gas" /\ running'[b]) =>
             walletFile'.data = tempWallets'[b]]_vars

\* a start request is accepted: a bot is constructed and configured
StartAccepted == \E b \in Bots : pc[b] = "unborn" /\ pc'[b] = "checkBalance"

(* C14: while a bot that was constructed and configured is initializing or looping,
   no step (a later start request in particular) changes the maxGasPrice, the
   intervals, the amounts or the fundAmount it reads; and a bot started by a request
   without overrides is configured with the built-in defaults. *)
C14_ParamsImmutable ==
    [][/\ (\E b \in Bots : pc[b] \in InitPcs \cup LoopPcs) => chainConfig' = chainConfig
       /\ (StartAccepted /\ \E count \in SmallWalletCountInputs :
                                ApiStart(count, NoOverrides))
              => chainConfig' = DefaultChainConfig]_vars

\* calculateSlippage has returned and minOut has been computed
QuoteStep == trade.pc = "quote" /\ trade'.pc # "quote"

(* C15: on the buy path and on the sell path, once calculateSlippage has returned
   the swap is what comes next (after the nonce query, where there is one), and the
   minOut it is given is 0 when the quote call failed and 95% of the quoted output,
   to the wei, when it succeeded. *)
C15_SlippageFloor ==
    [][QuoteStep =>
          /\ trade'.pc \in {"swap", "nonce"}
          /\ IF trade'.quoted = None
             THEN trade'.minOut = 0
             ELSE /\ 20 * trade'.minOut > 19 * trade'.quoted - 20
                  /\ 20 * trade'.minOut < 19 * trade'.quoted + 20]_vars

\* generateRandomAmount has been called under a configuration with 0 <= min <= max
AmountDrawn ==
    /\ trade.tradeAmount # None
    /\ 0 <= chainConfig.minAmountAVAX
    /\ chainConfig.minAmountAVAX <= chainConfig.maxAmountAVAX

(* C16, as claimed: with 0 <= minAmount <= maxAmount, whatever the two draws, the
   amount is at least minAmount, at most maxAmount * (1 + RANDOM_VARIANCE), and not
   negative. *)
C16_AmountBounds ==
    AmountDrawn =>
        /\ trade.tradeAmount >= chainConfig.minAmountAVAX * AmountScale
        /\ trade.tradeAmount * InverseRandomVariance <=
               chainConfig.maxAmountAVAX * (InverseRandomVariance + 1) * AmountScale
        /\ trade.tradeAmount >= 0

(* C16, amended: with 0 <= minAmount <= maxAmount, whatever the two draws, the
   amount is at least minAmount * (1 - RANDOM_VARIANCE), at most
   maxAmount * (1 + RANDOM_VARIANCE), and not negative. *)
C16_AmountBoundsWithVariance ==
    AmountDrawn =>
        /\ trade.tradeAmount * InverseRandomVariance >=
               chainConfig.minAmountAVAX * (InverseRandomVariance - 1) * AmountScale
        /\ trade.tradeAmount * InverseRandomVariance <=
               chainConfig.maxAmountAVAX * (InverseRandomVariance + 1) * AmountScale
        /\ trade.tradeAmount >= 0

\* an amount below minAmount was drawn
C16_Witness ==
    /\ AmountDrawn
    /\ trade.tradeAmount < chainConfig.minAmountAVAX * AmountScale
    /\ trade.tradeAmount > 0

(* C17: the eligible wallets of a cycle are in pool order without repetition; the
   loop is in executeTrade for one of them at a time; when executeTrade returns the
   jitter sleep follows; after the sleep the next wallet of the list is traded, and
   only after the last one is the wallet file written. *)
C17_SequentialDispatch ==
    [][\A b \in Bots :
         /\ (pc[b] = "gotGas" /\ pc'[b] = "trade") =>
                /\ idx'[b] = 1
                /\ \A j, k \in 1..Len(eligible'[b]) :
                       j < k => eligible'[b][j] < eligible'[b][k]
         /\ pc'[b] = "trade" => idx'[b] \in 1..Len(eligible'[b])
         /\ (pc[b] = "trade" /\ pc'[b] # "trade") =>
                pc'[b] = "jitter" /\ idx'[b] = idx[b] /\ eligible'[b] = eligible[b]
         /\ (pc[b] = "jitter" /\ pc'[b] # "jitter") =>
                IF idx[b] < Len(eligible[b])
                THEN pc'[b] = "trade" /\ idx'[b] = idx[b] + 1
                     /\ eligible'[b] = eligible[b] /\ walletFile' = walletFile
                ELSE pc'[b] \in {"cycleWait", "errWait"}
         /\ (pc[b] \in {"trade", "gas"} /\ pc'[b] # pc[b]) => walletFile' = walletFile]_vars

\* the loop has written the wallet file after trading two wallets one after another
C17_Witness ==
    \E b \in Bots :
        /\ pc[b] = "cycleWait"
        /\ walletFile.data = tempWallets[b]
        /\ Cardinality({i \in 1..Len(tempWallets[b]) :
                           tempWallets[b][i].lastTradeTime = now}) >= 2

(* C18: whatever start and stop requests came before, no two trades are in flight
   at once for the chain: there are never two loops inside executeTrade. *)
C18_OneLoopPerChain ==
    Cardinality({b \in Bots : pc[b] = "trade"}) <= 1

\* the invocation has gone into, or through, sellTokensForAVAX
Selling ==
    \/ trade.pc \in {"approve", "nonce"} \cup SweepPcs
    \/ "approve" \in Range(trade.calls)

\* the invocation has chosen its direction
DirectionChosen == trade.tokenBalance # None /\ trade.pc # "insufficient"

(* C19: an invocation sells (approve, then the token-for-native swap) only when the
   token balance it read is above 0, and with a token balance of 0 it buys. *)
C19_TradeDirection ==
    /\ Selling => trade.tokenBalance > 0 /\ ~trade.isBuy
    /\ (DirectionChosen /\ trade.tokenBalance = 0) => trade.isBuy /\ ~Selling
    /\ (DirectionChosen /\ ~trade.isBuy) => trade.tokenBalance > 0

\* a buy is being submitted by a wallet that holds tokens and could have sold
C19_Witness ==
    /\ trade.pc = "swap"
    /\ trade.tokenBalance > 0
    /\ trade.isBuy

\* returnFundsToMain has been called in this invocation
Swept ==
    \/ trade.pc \in SweepPcs
    \/ \E k \in 1..Len(trade.calls) : trade.calls[k] \in SweepPcs \cup {"sweepCaught"}

(* C20: returnFundsToMain is called only on the sell path, right after the
   confirmation of the sell swap (approve, swap and confirmation all behind it in
   this invocation), never in an invocation that failed; and once it is called the
   trade ends as executed, whether or not the sweep itself went through. *)
C20_SweepOrdering ==
    [][/\ Swept' =>
            /\ ~trade'.isBuy
            /\ trade'.pc \in SweepPcs \cup {"executed"}
            /\ \E i, j, k \in 1..Len(trade'.calls) :
                  /\ i < j /\ j < k
                  /\ trade'.calls[i] = "approve"
                  /\ trade'.calls[j] = "swap"
                  /\ trade'.calls[k] = "confirm"
                  /\ \A n \in (k + 1)..Len(trade'.calls) :
                         trade'.calls[n] \in SweepPcs \cup {"sweepCaught"}
       /\ (trade'.pc \in SweepPcs /\ trade.pc \notin SweepPcs) =>
              trade.pc = "confirm" /\ trade'.pc = "sweep"
       /\ (trade.pc \in SweepPcs /\ trade'.pc \notin SweepPcs) => trade'.pc = "executed"
       /\ (trade.pc = "confirm" /\ trade.isBuy) => trade'.pc \in {"confirm", "executed", "failed"}]_vars

\* a sell was recorded as executed although the sweep after it failed
C20_Witness ==
    /\ trade.pc = "executed"
    /\ ~trade.isBuy
    /\ trade.calls[Len(trade.calls)] = "sweepCaught"

\* the transfer of fundWallet has been submitted in this step
FundSubmitted == trade.pc = "fundSend" /\ trade'.pc = "fundConfirm"

(* C21: in executeTrade, fundWallet goes on to a transfer from the main wallet iff
   the balance it read is below the fund threshold; the transfer it submits is of
   exactly fundAmount; the trade's own balance query comes only once fundWallet
   has returned, so after the confirmation of a transfer that was submitted, and it
   then reads a balance that includes a confirmed transfer; and wherever a call of
   fundWallet fails, executeTrade goes on to its balance query and never to its
   catch. *)
C21_Funding ==
    [][/\ (trade.pc = "fund" /\ trade'.fundBalance # None) =>
             /\ trade'.fundBalance = trade.walletBalance
             /\ trade'.pc = IF trade'.fundBalance < WALLET_FUND_THRESHOLD
                            THEN "fundGasPrice" ELSE "balance"
       /\ FundSubmitted =>
             /\ trade.fundBalance < WALLET_FUND_THRESHOLD
             /\ trade'.fundValue = chainConfig.fundAmount
       /\ (trade.pc \in FundPcs /\ trade'.pc # trade.pc) =>
             trade'.pc \in FundPcs \cup {"balance"}
       /\ (trade.fundValue = None /\ trade'.fundValue = None) =>
             trade'.walletBalance = trade.walletBalance \/ trade.pc \in TradeDone \cup {"idle"}
       /\ (trade'.pc = "balance" /\ trade.pc # "balance") =>
             /\ trade.pc \in FundPcs
             /\ trade'.fundValue # None => trade.pc = "fundConfirm"
       /\ (trade.pc = "balance" /\ trade'.AVAXBalance # None) =>
             /\ trade'.AVAXBalance = trade.walletBalance
             /\ trade.calls[Len(trade.calls)] = "fundConfirm" =>
                    trade'.AVAXBalance = trade.fundBalance + chainConfig.fundAmount
             /\ trade.fundValue = None => trade'.AVAXBalance = trade.fundBalance
                                           \/ trade.fundBalance = None]_vars

\* a wallet below the threshold was topped up, and the trade has read the new balance
C21_Witness ==
    /\ trade.pc = "tokenBalance"
    /\ trade.fundBalance < WALLET_FUND_THRESHOLD
    /\ trade.fundValue = chainConfig.fundAmount
    /\ trade.AVAXBalance = trade.fundBalance + chainConfig.fundAmount

(* C22: returnFundsToMain submits a transfer to the main wallet only if the balance
   it read is above the reserve threshold and balance - gasPrice * 21000 > 0, and
   none otherwise; the value it sends is exactly balance - gasPrice * 21000 for the
   one gas price it read, so value plus gas cost is not above the balance read. *)
C22_SweepGuard ==
    [][/\ (trade'.pc = "sweepSend" /\ trade.pc # "sweepSend") =>
             /\ trade'.sweepBalance > SweepReserve
             /\ trade'.sweepBalance - trade'.sweepGasPrice * GasLimit > 0
       /\ (trade.pc = "sweepSend" /\ trade'.pc = "sweepConfirm") =>
             /\ trade'.sweepValue = trade.sweepBalance - trade.sweepGasPrice * GasLimit
             /\ trade'.sweepValue + trade.sweepGasPrice * GasLimit <= trade.sweepBalance
             /\ trade'.sweepValue > 0
       /\ (trade.pc # "sweepSend" \/ trade'.pc # "sweepConfirm") =>
             trade'.sweepValue = trade.sweepValue \/ trade'.pc = "fund"]_vars

\* the loop of bot b calls executeTrade in this step
CallStep(b) == pc[b] # "trade" /\ pc'[b] = "trade"

(* C24: within one trading loop, when executeTrade is called on a wallet for which
   it has returned before, whether that trade was executed, aborted for
   insufficient balance or failed with a caught error, at least minInterval has
   passed since that return. *)
C24_RetryThrottled ==
    [][\A b \in Bots :
         (CallStep(b) /\ eligible'[b][idx'[b]] \in DOMAIN lastReturn.at[b]) =>
            now' >= lastReturn.at[b][eligible'[b][idx'[b]]] + chainConfig.minInterval]_vars

\* GET /api/is_running answers with the module's isRunning
StatusReported == isRunning

\* some trading loop has been started and has not left its while loop
LoopExecuting == \E b \in Bots : pc[b] \in LoopPcs

(* C25: in every reachable state the status reported by /api/is_running is true
   iff some trading loop is still executing; in particular, while the status is
   false no loop is inside a trade or about to write the wallet file. *)
C25_StatusConsistent == StatusReported <=> LoopExecuting

\* the calls that submit or confirm an approve, a swap or a sweep
TradingCalls == {"approve", "nonce", "swap", "confirm"} \cup SweepPcs \cup {"sweepCaught"}

(* C23: when the balance executeTrade read after fundWallet is below the drawn
   amount plus MIN_AVAX_BALANCE, executeTrade returns at once: no approve, swap or
   sweep is submitted for the wallet, nothing is thrown, the loop goes to its
   jitter sleep with the rest of the cycle as it was, and after the sleep it calls
   executeTrade on the next eligible wallet. *)
C23_InsufficientAbort ==
    [][/\ (trade.pc = "tokenBalance" /\ trade'.tradeAmount # None) =>
             (trade'.pc = "insufficient" <=>
                 trade.AVAXBalance * AmountScale
                     < trade'.tradeAmount + MIN_AVAX_BALANCE * AmountScale)
       /\ trade'.pc = "insufficient" =>
             /\ Range(trade'.calls) \cap TradingCalls = {}
             /\ trade'.calls[Len(trade'.calls)] = "tokenBalance"
       /\ \A b \in Bots :
             /\ (pc[b] = "trade" /\ trade.pc = "insufficient" /\ trade' # trade) =>
                    /\ pc'[b] = "jitter"
                    /\ logged'[b] = "insufficient"
                    /\ eligible'[b] = eligible[b] /\ idx'[b] = idx[b]
                    /\ tempWallets'[b] = tempWallets[b]
             /\ (pc[b] = "jitter" /\ logged[b] = "insufficient" /\ pc'[b] # "jitter"
                   /\ idx[b] < Len(eligible[b])) =>
                    /\ pc'[b] = "trade"
                    /\ idx'[b] = idx[b] + 1
                    /\ eligible'[b] = eligible[b]]_vars

\* executeTrade has aborted for insufficient balance on a wallet that is not the last
\* of its cycle
C23_Witness ==
    \E b \in Bots :
        /\ pc[b] = "jitter"
        /\ logged[b] = "insufficient"
        /\ idx[b] < Len(eligible[b])

\* the addresses of the records of tw, in the order of the list
AddressList(tw) == [i \in 1..Len(tw) |-> tw[i].address]

\* the lastTradeTime of no record of the list tw is lower in the list after
NeverEarlier(tw, after) ==
    \A i \in 1..Len(tw) : after[i].lastTradeTime >= tw[i].lastTradeTime

(* C26: once a bot holds its pool, every step leaves the ordered list of wallet
   addresses (and with them the keys) as it was, in memory and in the wallet file;
   the only field that changes is lastTradeTime, in memory only for the wallet
   whose executeTrade has just returned; and no wallet's lastTradeTime, in memory
   or in the file, ever decreases. *)
C26_WalletRecords ==
    [][/\ \A b \in Bots :
             tempWallets[b] # <<>> =>
                /\ AddressList(tempWallets'[b]) = AddressList(tempWallets[b])
                /\ NeverEarlier(tempWallets[b], tempWallets'[b])
                /\ \A i \in 1..Len(tempWallets[b]) :
                       tempWallets'[b][i] # tempWallets[b][i] =>
                           pc[b] = "trade" /\ eligible[b][idx[b]] = i
       /\ walletFile.exists =>
             /\ walletFile'.exists
             /\ AddressList(walletFile'.data) = AddressList(walletFile.data)
             /\ NeverEarlier(walletFile.data, walletFile'.data)]_vars
=============================================================================
